---- MODULE Spec2Model ----
(***************************************************************************)
(* Security-News-Aggregator: the ingestion pipeline (update_news.py), the  *)
(* dashboard's "Fetch Latest News" path (app.py), the source adapters      *)
(* (news_fetcher.py) and the enrichment client (ai_analyzer.py), over one  *)
(* SQLite table `news` whose url column is UNIQUE.                         *)
(*                                                                         *)
(* Days are integers; a stored date is the TEXT of the date column: a day  *)
(* and whether the text carries a time-of-day part ('YYYY-MM-DD' against   *)
(* 'YYYY-MM-DD 00:00:00').                                                 *)
(*                                                                         *)
(* One clock: datetime.now() and SQLite's date('now') give the same day.   *)
(* A pipeline run and a dashboard click do not overlap, and midnight       *)
(* passes while neither is under way.  sort_values keeps the order of      *)
(* rows with equal dates.                                                  *)
(***************************************************************************)
EXTENDS Integers, Sequences, FiniteSets, TLC

VARIABLES
    today,          \* the calendar day of datetime.now() / date('now')
    site,           \* the articles on the front pages of the two sites
    news,           \* the committed rows of table news, in rowid order
    pc,             \* update_news.main: where the run stands
    model,          \* ai_analyzer.model of the running pipeline process
    news_items,     \* update_news.main: the DataFrame handed on by the fetch
    idx,            \* store_news: position of iterrows() in news_items
    txn,            \* store_news: rows inserted on its connection, not yet committed
    counts,         \* store_news: new_items_count, existing_items_count, error_items_count
    handled,        \* store_news: the urls its loop went through without an error
    run,            \* the run of update_news.main under way or just ended: calls, outcome
    served,         \* which sites answered the fetch of the last step, and its target
    enrich_calls,   \* the analyze_security_news calls made by the last step
    last_item,      \* the item the last step took through the loop of store_news
    stored_now,     \* the urls of the batch whose store operation the last step ended
    last_op,        \* the storage operation the last step ran to its end, if any
    deleted_count,  \* cleanup_old_news: cursor.rowcount, when the last step was a sweep
    prev_sweep,     \* when the last step was a sweep: what the step before it ran
    invoked,        \* SpecCalls: the function the last step called, with its arguments
    returned,       \* SpecCalls: what that call returned
    errors,         \* SpecRace: the errors the two ingestions have logged
    raced,          \* SpecRace: the urls both ingestions found absent before either inserted
    ingested,       \* for each stored url, the day of the date it was inserted with
    dpc,            \* app.main "Fetch Latest News": where the click stands
    new_news,       \* app.main: the enriched DataFrame handed to app.store_news
    to_append       \* app.store_news: new_items, the rows left after the url filter

vars == << today, site, news, pc, model, news_items, idx, txn, counts, handled, run,
           served, enrich_calls, last_item, stored_now, last_op, deleted_count,
           prev_sweep, invoked, returned, raced, errors, ingested, dpc, new_news,
           to_append >>

-----------------------------------------------------------------------------
(* Bounds of the model.                                                    *)

\* the clock runs from day 0 to day MaxDay
MaxDay == 1
\* the two front pages list at most MaxPage articles together
MaxPage == 2
\* SpecDaily: the number of consecutive daily runs
MaxDailyRuns == 92
\* at most MaxFaults statements of one store_news loop raise on the storage side
MaxFaults == 1
\* SpecCalls: a raw date string has at most MaxWords words
MaxWords == 3
\* SpecCalls: a title or a summary has at most MaxText words
MaxText == 2
\* SpecCalls: an analysis text has at most MaxAnalysis words
MaxAnalysis == 3

\* cleanup_old_news: date('now', '-90 days')
RetentionDays == 90

-----------------------------------------------------------------------------
(* Texts.  A text is a string; Chars gives the characters of the strings   *)
(* that the code takes apart.                                              *)

\* ai_analyzer.py:28, the message returned when model is None
UNAVAILABLE_NO_MODEL ==
    "AI analysis is currently unavailable. Please check your API key and internet connection."

\* ai_analyzer.py:59 and :62, the message returned when the call fails
UNAVAILABLE_RETRY ==
    "AI analysis is currently unavailable. Please try again later."

\* an answer of the collaborator, used as input
ResponseMediumCritical == "Rated Medium, some say CRITICAL"

\* get_risk_level: risk_levels, in the order of the list
risk_levels == << "Critical", "High", "Medium", "Low" >>

\* the characters of a string
Chars(s) ==
    CASE s = UNAVAILABLE_NO_MODEL -> <<
        "A","I"," ","a","n","a","l","y","s","i","s"," ","i","s"," ","c","u",
        "r","r","e","n","t","l","y"," ","u","n","a","v","a","i","l","a","b",
        "l","e","."," ","P","l","e","a","s","e"," ","c","h","e","c","k"," ",
        "y","o","u","r"," ","A","P","I"," ","k","e","y"," ","a","n","d"," ",
        "i","n","t","e","r","n","e","t"," ","c","o","n","n","e","c","t","i",
        "o","n","." >>
      [] s = UNAVAILABLE_RETRY -> <<
        "A","I"," ","a","n","a","l","y","s","i","s"," ","i","s"," ","c","u",
        "r","r","e","n","t","l","y"," ","u","n","a","v","a","i","l","a","b",
        "l","e","."," ","P","l","e","a","s","e"," ","t","r","y"," ","a","g",
        "a","i","n"," ","l","a","t","e","r","." >>
      [] s = ResponseMediumCritical -> <<
        "R","a","t","e","d"," ","M","e","d","i","u","m",","," ","s","o","m",
        "e"," ","s","a","y"," ","C","R","I","T","I","C","A","L" >>
      [] s = "Critical" -> <<"C","r","i","t","i","c","a","l">>
      [] s = "High" -> <<"H","i","g","h">>
      [] s = "Medium" -> <<"M","e","d","i","u","m">>
      [] s = "Low" -> <<"L","o","w">>
      [] s = "30" -> <<"3","0">>
      [] s = "1000000" -> <<"1","0","0","0","0","0","0">>
      [] s = "day" -> <<"d","a","y">>
      [] s = "days" -> <<"d","a","y","s">>
      [] s = "hours" -> <<"h","o","u","r","s">>
      [] s = "ago" -> <<"a","g","o">>
      [] s = "hour" -> <<"h","o","u","r">>
      [] s = "AGO" -> <<"A","G","O">>
      [] s = "Sunday" -> <<"S","u","n","d","a","y">>
      [] s = "2025-01-01" -> <<"2","0","2","5","-","0","1","-","0","1">>
      [] s = "2024-12-31T08:30:00Z" -> <<"2","0","2","4","-","1","2","-","3","1","T","0","8",":","3","0",":","0","0","Z">>
      [] s = "vulnerability" -> <<"v","u","l","n","e","r","a","b","i","l","i","t","y">>
      [] s = "exploit" -> <<"e","x","p","l","o","i","t">>
      [] s = "CVE" -> <<"C","V","E">>
      [] s = "patch" -> <<"p","a","t","c","h">>
      [] s = "security flaw" -> <<"s","e","c","u","r","i","t","y"," ","f","l","a","w">>
      [] s = "zero-day" -> <<"z","e","r","o","-","d","a","y">>
      [] s = "breach" -> <<"b","r","e","a","c","h">>
      [] s = "leak" -> <<"l","e","a","k">>
      [] s = "hack" -> <<"h","a","c","k">>
      [] s = "stolen" -> <<"s","t","o","l","e","n">>
      [] s = "exposed" -> <<"e","x","p","o","s","e","d">>
      [] s = "compromised" -> <<"c","o","m","p","r","o","m","i","s","e","d">>
      [] s = "malware" -> <<"m","a","l","w","a","r","e">>
      [] s = "ransomware" -> <<"r","a","n","s","o","m","w","a","r","e">>
      [] s = "phishing" -> <<"p","h","i","s","h","i","n","g">>
      [] s = "APT" -> <<"A","P","T">>
      [] s = "threat actor" -> <<"t","h","r","e","a","t"," ","a","c","t","o","r">>
      [] s = "campaign" -> <<"c","a","m","p","a","i","g","n">>
      [] s = "GDPR" -> <<"G","D","P","R">>
      [] s = "compliance" -> <<"c","o","m","p","l","i","a","n","c","e">>
      [] s = "regulation" -> <<"r","e","g","u","l","a","t","i","o","n">>
      [] s = "standard" -> <<"s","t","a","n","d","a","r","d">>
      [] s = "framework" -> <<"f","r","a","m","e","w","o","r","k">>
      [] s = "audit" -> <<"a","u","d","i","t">>
      [] s = "cloud" -> <<"c","l","o","u","d">>
      [] s = "AWS" -> <<"A","W","S">>
      [] s = "Azure" -> <<"A","z","u","r","e">>
      [] s = "GCP" -> <<"G","C","P">>
      [] s = "container" -> <<"c","o","n","t","a","i","n","e","r">>
      [] s = "kubernetes" -> <<"k","u","b","e","r","n","e","t","e","s">>
      [] s = "privacy" -> <<"p","r","i","v","a","c","y">>
      [] s = "data protection" -> <<"d","a","t","a"," ","p","r","o","t","e","c","t","i","o","n">>
      [] s = "encryption" -> <<"e","n","c","r","y","p","t","i","o","n">>
      [] s = "PII" -> <<"P","I","I">>
      [] s = "personal data" -> <<"p","e","r","s","o","n","a","l"," ","d","a","t","a">>
      [] s = "authentication" -> <<"a","u","t","h","e","n","t","i","c","a","t","i","o","n">>
      [] s = "authorization" -> <<"a","u","t","h","o","r","i","z","a","t","i","o","n">>
      [] s = "IAM" -> <<"I","A","M">>
      [] s = "identity" -> <<"i","d","e","n","t","i","t","y">>
      [] s = "access control" -> <<"a","c","c","e","s","s"," ","c","o","n","t","r","o","l">>
      [] s = "SSO" -> <<"S","S","O">>
      [] s = "Hacked" -> <<"H","a","c","k","e","d">>
      [] s = "update" -> <<"u","p","d","a","t","e">>
      [] s = "HIGH" -> <<"H","I","G","H">>
      [] s = "medium" -> <<"m","e","d","i","u","m">>
      [] s = "low" -> <<"l","o","w">>
      [] s = "follow" -> <<"f","o","l","l","o","w">>
      [] s = "risk" -> <<"r","i","s","k">>
      [] s = "" -> << >>

UpperChars == << "A","B","C","D","E","F","G","H","I","J","K","L","M",
                 "N","O","P","Q","R","S","T","U","V","W","X","Y","Z" >>
LowerChars == << "a","b","c","d","e","f","g","h","i","j","k","l","m",
                 "n","o","p","q","r","s","t","u","v","w","x","y","z" >>

\* str.lower() on one character
LowerChar(c) ==
    IF \E i \in 1..26 : UpperChars[i] = c
    THEN LowerChars[CHOOSE i \in 1..26 : UpperChars[i] = c]
    ELSE c

\* str.lower(), on the characters
Lower(cs) == [i \in 1..Len(cs) |-> LowerChar(cs[i])]

\* needle in hay (Python's substring test), on the characters
Contains(hay, needle) ==
    \E i \in 0..(Len(hay) - Len(needle)) :
        \A j \in 1..Len(needle) : hay[i + j] = needle[j]

\* what one generate_content call can do: raise, answer without text, or answer
Collaborator ==
    { [kind |-> "raise", text |-> ""],
      [kind |-> "notext", text |-> ""],
      [kind |-> "text", text |-> ResponseMediumCritical] }

\* analyze_security_news(title, summary), given the module's model and what the
\* collaborator does with the call
analyze_security_news(m, c) ==
    IF m = "none" THEN UNAVAILABLE_NO_MODEL
    ELSE IF c.kind = "raise" THEN UNAVAILABLE_RETRY
    ELSE IF c.kind = "text" THEN c.text
    ELSE UNAVAILABLE_RETRY

\* get_risk_level with the level that occurs first in the text
M_first_level_in(analysis) ==
    LET low == Lower(analysis)
        level(i) == Lower(Chars(risk_levels[i]))
        at(i) == { p \in 0..(Len(low) - Len(level(i))) :
                     SubSeq(low, p + 1, p + Len(level(i))) = level(i) }
        found == { i \in 1..Len(risk_levels) : at(i) # {} }
        first(i) == CHOOSE p \in at(i) : \A q \in at(i) : p <= q
    IN  IF found = {} THEN "Unknown"
        ELSE risk_levels[CHOOSE i \in found : \A k \in found : first(i) <= first(k)]

\* the loop of get_risk_level, on the characters of the text: the first level
\* of risk_levels found in it
first_level_in(analysis) ==
    LET low == Lower(analysis)
        found == { i \in 1..Len(risk_levels) :
                     Contains(low, Lower(Chars(risk_levels[i]))) }
    IN  IF found = {} THEN "Unknown"
        ELSE risk_levels[CHOOSE i \in found : \A k \in found : i <= k]

\* get_risk_level(analysis)
get_risk_level(analysis) == first_level_in(Chars(analysis))

\* the texts analyze_security_news can return here
AnalysisTexts ==
    { UNAVAILABLE_NO_MODEL, UNAVAILABLE_RETRY } \cup
    { c.text : c \in { k \in Collaborator : k.kind = "text" } }

\* get_risk_level over those texts, computed once
risk_level_of == [t \in AnalysisTexts |-> get_risk_level(t)]

-----------------------------------------------------------------------------
(* categorize_news.                                                          *)

\* categorize_news: categories, in the order of the dict
categories == <<
    [name |-> "Vulnerabilities",
     keywords |-> << "vulnerability", "exploit", "CVE", "patch", "security flaw", "zero-day" >>],
    [name |-> "Breaches",
     keywords |-> << "breach", "leak", "hack", "stolen", "exposed", "compromised" >>],
    [name |-> "Threat Intelligence",
     keywords |-> << "malware", "ransomware", "phishing", "APT", "threat actor", "campaign" >>],
    [name |-> "Compliance",
     keywords |-> << "GDPR", "compliance", "regulation", "standard", "framework", "audit" >>],
    [name |-> "Cloud Security",
     keywords |-> << "cloud", "AWS", "Azure", "GCP", "container", "kubernetes" >>],
    [name |-> "Privacy",
     keywords |-> << "privacy", "data protection", "encryption", "PII", "personal data" >>],
    [name |-> "Identity & Access",
     keywords |-> << "authentication", "authorization", "IAM", "identity", "access control", "SSO" >>] >>

\* the category returned when no keyword matches
DEFAULT_CATEGORY == "Threat Intelligence"

\* keyword.lower() of every keyword, on the characters
keyword_lower ==
    [w \in UNION { { categories[c].keywords[k] : k \in 1..Len(categories[c].keywords) } :
                     c \in 1..Len(categories) } |-> Lower(Chars(w))]

RECURSIVE keyword_loop(_, _, _)
\* `for keyword in keywords`: the score of one category
keyword_loop(keywords, title_lower, summary_lower) ==
    IF keywords = << >> THEN 0
    ELSE LET keyword == keyword_lower[Head(keywords)]
         IN  (IF Contains(title_lower, keyword) THEN 2 ELSE 0)
             + (IF Contains(summary_lower, keyword) THEN 1 ELSE 0)
             + keyword_loop(Tail(keywords), title_lower, summary_lower)

RECURSIVE category_loop(_, _, _)
\* `for category, keywords in categories.items()`: category_scores, in the
\* order of the dict
category_loop(cats, title_lower, summary_lower) ==
    IF cats = << >> THEN << >>
    ELSE << keyword_loop(Head(cats).keywords, title_lower, summary_lower) >>
         \o category_loop(Tail(cats), title_lower, summary_lower)

\* max(category_scores.values())
max(category_scores) ==
    CHOOSE v \in { category_scores[c] : c \in 1..Len(category_scores) } :
        \A c \in 1..Len(category_scores) : category_scores[c] <= v

\* the return of categorize_news with the last category at the maximum
M_first_with(category_scores, max_score) ==
    IF max_score > 0
    THEN categories[CHOOSE c \in 1..Len(categories) :
                       /\ category_scores[c] = max_score
                       /\ \A k \in (c + 1)..Len(categories) :
                              category_scores[k] # max_score].name
    ELSE DEFAULT_CATEGORY

\* the return of categorize_news, given the scores and their maximum
first_with(category_scores, max_score) ==
    IF max_score > 0
    THEN categories[CHOOSE c \in 1..Len(categories) :
                       /\ category_scores[c] = max_score
                       /\ \A k \in 1..(c - 1) : category_scores[k] # max_score].name
    ELSE DEFAULT_CATEGORY

\* the scores of categorize_news to its return
best_category(category_scores) == first_with(category_scores, max(category_scores))

\* categorize_news(title, summary), on the characters
categorize_news(title, summary) ==
    best_category(category_loop(categories, Lower(title), Lower(summary)))

-----------------------------------------------------------------------------
(* Dates.                                                                  *)

\* the TEXT 'YYYY-MM-DD' of a day
DateStr(d) == [day |-> d, hasTime |-> FALSE]

\* pd.to_datetime on a 'YYYY-MM-DD' string: a Timestamp at midnight
to_datetime(s) == [type |-> "Timestamp", day |-> s.day]

\* Timestamp.strftime('%Y-%m-%d')
strftime_ymd(ts) == [day |-> ts.day, hasTime |-> FALSE]

\* what sqlite3 binds for a datetime: isoformat(" "), 'YYYY-MM-DD 00:00:00'
adapt_datetime(ts) == [day |-> ts.day, hasTime |-> TRUE]

\* a < b on the TEXT of two dates (SQLite compares the strings): a shorter string
\* is less than every string it is a proper prefix of
TextLess(a, b) ==
    \/ a.day < b.day
    \/ a.day = b.day /\ ~a.hasTime /\ b.hasTime

\* date LIKE 'YYYY-MM-DD%'
LikeDay(a, d) == a.day = d

\* ' ' in date
HasSpace(a) == a.hasTime

-----------------------------------------------------------------------------
(* The sites and the source adapters (news_fetcher.py).                    *)

SecurityWeek == "Security Week"
HackerNews == "The Hacker News"

SW_HOST == "https://www.securityweek.com"
HN_HOST == "https://thehackernews.com"

\* a raw date string, by its form: 'YYYY-MM-DDTHH:MM:SSZ' (iso, n the day),
\* 'YYYY-MM-DD' (date, n the day), 'N days ago', 'N hours ago', 'ago' without a
\* digit, and anything else
Raw(form, n) == [form |-> form, n |-> n]

\* parse_date(date_str, source) at day now: the 'YYYY-MM-DD' string, as its day
parse_date(date_str, source, now) ==
    IF source = HackerNews
    THEN IF date_str.form \in {"days_ago", "hours_ago", "ago"}
         THEN IF date_str.form = "ago" THEN now       \* re.search is None: except
              ELSE IF date_str.form = "days_ago" THEN now - date_str.n
              ELSE now
         ELSE now
    ELSE IF source = SecurityWeek
    THEN IF date_str.form = "iso" THEN date_str.n
         ELSE IF date_str.form = "date" THEN date_str.n
         ELSE now                                     \* ValueError: except
    ELSE now

\* day 0 is 2025-01-01, whose date.toordinal() is this; date.min has ordinal 1
DayZeroOrdinal == 739252

\* the smallest day a date can hold (0001-01-01)
MIN_DAY == 1 - DayZeroOrdinal

\* the words a raw date string is made of here, joined by single spaces
DateWords ==
    { "30", "1000000", "days", "hours", "ago", "AGO", "Sunday", "2025-01-01",
      "2024-12-31T08:30:00Z" }

RECURSIVE Join(_)
\* ' '.join(words), on the characters
Join(words) ==
    IF words = << >> THEN << >>
    ELSE IF Len(words) = 1 THEN Chars(words[1])
    ELSE Chars(words[1]) \o << " " >> \o Join(Tail(words))

Digits == << "0", "1", "2", "3", "4", "5", "6", "7", "8", "9" >>
IsDigit(c) == \E i \in 1..10 : Digits[i] = c
DigitValue(c) == (CHOOSE i \in 1..10 : Digits[i] = c) - 1

RECURSIVE int(_)
\* int() of a run of digits
int(cs) ==
    IF cs = << >> THEN 0
    ELSE 10 * int(SubSeq(cs, 1, Len(cs) - 1)) + DigitValue(cs[Len(cs)])

\* re.search(r'\d+', s): the first run of digits, << >> when there is none (None)
search_digits(cs) ==
    LET at == { i \in 1..Len(cs) : IsDigit(cs[i]) }
    IN  IF at = {} THEN << >>
        ELSE LET first == CHOOSE i \in at : \A k \in at : i <= k
                 last == CHOOSE j \in first..Len(cs) :
                            /\ \A k \in first..j : IsDigit(cs[k])
                            /\ j = Len(cs) \/ ~IsDigit(cs[j + 1])
             IN  SubSeq(cs, first, last)

\* datetime.strptime(s, '%Y-%m-%dT%H:%M:%SZ'): the day, or "ValueError"
strptime_iso(words) ==
    IF words = << "2024-12-31T08:30:00Z" >> THEN [error |-> "", day |-> -1]
    ELSE [error |-> "ValueError", day |-> 0]

\* datetime.strptime(s, '%Y-%m-%d'): the day, or "ValueError" ('2025-02-30' has the
\* shape and is no date)
strptime_date(words) ==
    IF words = << "2025-01-01" >> THEN [error |-> "", day |-> 0]
    ELSE [error |-> "ValueError", day |-> 0]

\* parse_date with the hours of 'N hours ago' taken off as whole days
M_parse_date_text(words, source, now) ==
    LET date_str == Join(words)
        low == Lower(date_str)
        found == search_digits(date_str)
        num == int(found)
    IN  IF source = HackerNews
        THEN IF Contains(low, Chars("ago"))
             THEN IF found = << >> THEN now
                  ELSE IF Contains(low, Chars("day"))
                  THEN IF now - num < MIN_DAY THEN now ELSE now - num
                  ELSE IF Contains(low, Chars("hour")) THEN now - (num \div 24)
                  ELSE now
             ELSE now
        ELSE IF source = SecurityWeek
        THEN IF strptime_iso(words).error = "" THEN strptime_iso(words).day
             ELSE IF strptime_date(words).error = "" THEN strptime_date(words).day
             ELSE now
        ELSE now

\* parse_date(date_str, source) at day now, on the text of date_str: the day of
\* the 'YYYY-MM-DD' it returns
parse_date_text(words, source, now) ==
    LET date_str == Join(words)
        low == Lower(date_str)
        found == search_digits(date_str)
        num == int(found)
    IN  IF source = HackerNews
        THEN IF Contains(low, Chars("ago"))
             THEN IF found = << >> THEN now          \* None.group(): except
                  ELSE IF Contains(low, Chars("day"))
                  THEN IF now - num < MIN_DAY THEN now   \* OverflowError: except
                       ELSE now - num
                  ELSE IF Contains(low, Chars("hour")) THEN now
                  ELSE now
             ELSE now
        ELSE IF source = SecurityWeek
        THEN IF strptime_iso(words).error = "" THEN strptime_iso(words).day
             ELSE IF strptime_date(words).error = "" THEN strptime_date(words).day
             ELSE now                                \* ValueError: except
        ELSE now

\* an <a href>: absolute (host given) or relative to the site (host "")
Link(host, path) == [host |-> host, path |-> path]

\* an article element of a front page; ok is whether every field the adapter
\* reads is there (a missing one raises inside the adapter's loop)
Article(link, raw, ok) == [link |-> link, raw |-> raw, ok |-> ok]

\* link if link.startswith('http') else "https://www.securityweek.com" + link
sw_url(link) == IF link.host # "" THEN link ELSE Link(SW_HOST, link.path)

\* one dict appended to news_items by an adapter
Item(url, source, date) == [url |-> url, source |-> source, date |-> date]

RECURSIVE M_adapter_loop(_, _, _, _)
\* the adapter's loop without its test on target_date
M_adapter_loop(articles, source, target_date, now) ==
    IF articles = << >> THEN << >>
    ELSE LET a == Head(articles)
             rest == M_adapter_loop(Tail(articles), source, target_date, now)
             article_date == parse_date(a.raw, source, now)
             url == IF source = SecurityWeek THEN sw_url(a.link) ELSE a.link
         IN  IF ~a.ok THEN rest
             ELSE << Item(url, source, [type |-> "str", day |-> article_date]) >> \o rest

RECURSIVE adapter_loop(_, _, _, _)
\* the for-loop of fetch_security_week / fetch_hacker_news over the articles
adapter_loop(articles, source, target_date, now) ==
    IF articles = << >> THEN << >>
    ELSE LET a == Head(articles)
             rest == adapter_loop(Tail(articles), source, target_date, now)
             article_date == parse_date(a.raw, source, now)
             url == IF source = SecurityWeek THEN sw_url(a.link) ELSE a.link
         IN  IF ~a.ok THEN rest
             ELSE IF target_date.given /\ article_date # target_date.day THEN rest
             ELSE << Item(url, source, [type |-> "str", day |-> article_date]) >> \o rest

\* what a site serves to one requests.get: its articles, or nothing when the
\* request raises
Page(articles) == [up |-> TRUE, articles |-> articles]
DOWN == [up |-> FALSE, articles |-> << >>]

\* the target_date argument: a day, or None
Target(d) == [given |-> TRUE, day |-> d]
NoTarget == [given |-> FALSE, day |-> 0]

\* fetch_security_week(target_date)
fetch_security_week(page, target_date, now) ==
    IF ~page.up THEN << >>
    ELSE adapter_loop(page.articles, SecurityWeek, target_date, now)

\* fetch_hacker_news(target_date)
fetch_hacker_news(page, target_date, now) ==
    IF ~page.up THEN << >>
    ELSE adapter_loop(page.articles, HackerNews, target_date, now)

RECURSIVE insert_desc(_, _)
\* one insertion of the stable sort by date, newest first
insert_desc(sorted, it) ==
    IF sorted = << >> THEN << it >>
    ELSE IF Head(sorted).date.day >= it.date.day
         THEN << Head(sorted) >> \o insert_desc(Tail(sorted), it)
         ELSE << it >> \o sorted

RECURSIVE sort_values_desc(_)
\* df.sort_values('date', ascending=False)
sort_values_desc(items) ==
    IF items = << >> THEN << >>
    ELSE insert_desc(sort_values_desc(SubSeq(items, 1, Len(items) - 1)),
                     items[Len(items)])

\* the fetch with the first adapter's failure ending it
M_fetch_security_news(sw_page, hn_page, target_date, now) ==
    IF ~sw_page.up THEN << >>
    ELSE LET all == fetch_security_week(sw_page, target_date, now)
                    \o fetch_hacker_news(hn_page, target_date, now)
         IN  sort_values_desc([i \in 1..Len(all) |->
                                 Item(all[i].url, all[i].source,
                                      to_datetime(all[i].date))])

\* fetch_security_news(target_date): the DataFrame's rows (<< >> is the empty frame)
fetch_security_news(sw_page, hn_page, target_date, now) ==
    LET security_week_items == fetch_security_week(sw_page, target_date, now)
        hacker_news_items == fetch_hacker_news(hn_page, target_date, now)
        all == security_week_items \o hacker_news_items
        df == [i \in 1..Len(all) |->
                 Item(all[i].url, all[i].source,
                      to_datetime(all[i].date))]
    IN  sort_values_desc(df)

-----------------------------------------------------------------------------
(* Table news and the SQL statements run on it.                            *)

\* one row of news (the columns the operations read or write)
Row(url, source, date, ai_analysis, risk_level) ==
    [url |-> url, source |-> source, date |-> date,
     ai_analysis |-> ai_analysis, risk_level |-> risk_level]

\* SELECT url FROM news WHERE url = ?  ... fetchone() is not None
url_exists(rows, url) == \E i \in 1..Len(rows) : rows[i].url = url

\* url TEXT UNIQUE: whether an INSERT of url passes the constraint
unique_ok(rows, url) == ~url_exists(rows, url)

RECURSIVE executemany(_, _)
\* executemany(INSERT ...): the rows seen on the connection when it ends, and
\* "IntegrityError" in .error when a row broke url UNIQUE
executemany(rows, new_rows) ==
    IF new_rows = << >> THEN [error |-> "", rows |-> rows]
    ELSE IF ~unique_ok(rows, Head(new_rows).url)
         THEN [error |-> "IntegrityError", rows |-> rows]
         ELSE executemany(Append(rows, Head(new_rows)), Tail(new_rows))

\* to_sql's insert, one transaction: committed, or rolled back whole when
\* executemany raises
insert_many(rows, new_rows) ==
    LET r == executemany(rows, new_rows)
    IN  IF r.error = "" THEN r ELSE [error |-> r.error, rows |-> rows]

\* the DELETE with <= for <
M_cleanup_old_news(rows, now) ==
    SelectSeq(rows, LAMBDA r : TextLess(DateStr(now - RetentionDays), r.date))

\* DELETE FROM news WHERE date < date('now', '-90 days'): the rows left
cleanup_old_news(rows, now) ==
    SelectSeq(rows, LAMBDA r : ~TextLess(r.date, DateStr(now - RetentionDays)))

\* update_article_dates() with a SELECT that leaves out the test on source
M_update_article_dates(rows, now) ==
    LET yesterday == now - 1
        yesterday_articles ==
            { i \in 1..Len(rows) : LikeDay(rows[i].date, yesterday) }
        new_date(date) ==
            IF HasSpace(date) THEN [day |-> now, hasTime |-> TRUE]
            ELSE DateStr(now)
    IN  IF yesterday_articles # {}
        THEN [i \in 1..Len(rows) |->
                IF i \in yesterday_articles
                THEN [rows[i] EXCEPT !.date = new_date(rows[i].date)]
                ELSE rows[i]]
        ELSE rows

\* update_article_dates(): the rows after its UPDATEs
update_article_dates(rows, now) ==
    LET yesterday == now - 1
        yesterday_articles ==
            { i \in 1..Len(rows) :
                LikeDay(rows[i].date, yesterday) /\ rows[i].source = HackerNews }
        new_date(date) ==
            IF HasSpace(date) THEN [day |-> now, hasTime |-> TRUE]
            ELSE DateStr(now)
    IN  IF yesterday_articles # {}
        THEN [i \in 1..Len(rows) |->
                IF i \in yesterday_articles
                THEN [rows[i] EXCEPT !.date = new_date(rows[i].date)]
                ELSE rows[i]]
        ELSE rows   \* no stored date fails LIKE '____-__-__%'; the branch rewrites
                    \* a date to itself anyway

-----------------------------------------------------------------------------
(* update_news.store_news, one item at a time.                             *)

NoCall == [kind |-> "none", text |-> ""]

\* the statements of the loop body that can raise on the storage side
ItemFaults == {"none", "select", "insert"}

\* the loop body with an enrichment call whose exception reaches the loop's except
M_store_item(view, it, m, c, fault) ==
    IF fault = "select"
    THEN [result |-> "error", rows |-> << >>, analyzed |-> FALSE, call |-> NoCall]
    ELSE IF url_exists(view, it.url)
    THEN [result |-> "existing", rows |-> << >>, analyzed |-> FALSE, call |-> NoCall]
    ELSE LET ai_analysis == analyze_security_news(m, c)
             made == IF m = "none" THEN NoCall ELSE c
         IN  IF fault = "insert" \/ made.kind = "raise"
             THEN [result |-> "error", rows |-> << >>, analyzed |-> TRUE,
                   call |-> made]
             ELSE [result |-> "new",
                   rows |-> << Row(it.url, it.source, DateStr(it.date.day),
                                   ai_analysis, risk_level_of[ai_analysis]) >>,
                   analyzed |-> TRUE, call |-> made]

\* one pass of the for-loop of store_news over item `it`: view is what the
\* connection sees (committed rows, then its own), c what the collaborator does,
\* fault the statement that raises.  Gives the row inserted (or none), which
\* counter is incremented, whether analyze_security_news was called and what
\* call reached the collaborator.
store_item(view, it, m, c, fault) ==
    IF fault = "select"
    THEN [result |-> "error", rows |-> << >>, analyzed |-> FALSE, call |-> NoCall]
    ELSE IF url_exists(view, it.url)
    THEN [result |-> "existing", rows |-> << >>, analyzed |-> FALSE, call |-> NoCall]
    ELSE LET ai_analysis == analyze_security_news(m, c)
             risk_level == risk_level_of[ai_analysis]
             date_str == IF it.date.type = "str" THEN DateStr(it.date.day)
                         ELSE strftime_ymd(it.date)
             made == IF m = "none" THEN NoCall ELSE c
         IN  IF fault = "insert" \/ ~unique_ok(view, it.url)
             THEN [result |-> "error", rows |-> << >>, analyzed |-> TRUE,
                   call |-> made]
             ELSE [result |-> "new",
                   rows |-> << Row(it.url, it.source, date_str, ai_analysis,
                                   risk_level) >>,
                   analyzed |-> TRUE, call |-> made]

-----------------------------------------------------------------------------
(* What the sites can serve.                                               *)

SeqsUpTo(S, n) == UNION { [1..k -> S] : k \in 0..n }

\* articles securityweek.com may list on day now: one story dated today under
\* an absolute link, and under a relative link dated at the edge of the
\* retention window (past it, a day later)
SWPool(now) ==
    { Article(Link(SW_HOST, "/a"), Raw("iso", now), TRUE),
      Article(Link("", "/a"), Raw("date", now - RetentionDays), TRUE) }

\* articles thehackernews.com may list
HNPool ==
    { Article(Link(HN_HOST, "/b"), Raw("hours_ago", 5), TRUE),
      Article(Link(HN_HOST, "/b"), Raw("days_ago", 1), TRUE) }

\* SpecFetch: more of what the sites may list: a second story, dates in forms the
\* source does not use, and elements the adapter cannot read
SWSite(now) ==
    SWPool(now) \cup
    { Article(Link("", "/a"), Raw("iso", now - RetentionDays - 1), TRUE),
      Article(Link(SW_HOST, "/c"), Raw("date", now), TRUE),
      Article(Link(SW_HOST, "/c"), Raw("days_ago", 1), TRUE),
      Article(Link(SW_HOST, "/c"), Raw("iso", now), FALSE) }

HNSite(now) ==
    HNPool \cup
    { Article(Link(HN_HOST, "/d"), Raw("days_ago", 0), TRUE),
      Article(Link(HN_HOST, "/d"), Raw("ago", 0), TRUE),
      Article(Link(HN_HOST, "/d"), Raw("iso", now - 1), TRUE),
      Article(Link(HN_HOST, "/d"), Raw("hours_ago", 5), FALSE) }

\* the front pages the two sites can have, over two pools of articles
Sites(sw_pool, hn_pool) ==
    { s \in [sw : SeqsUpTo(sw_pool, MaxPage), hn : SeqsUpTo(hn_pool, MaxPage)] :
        Len(s.sw) + Len(s.hn) <= MaxPage }

\* what a site serves to one requests.get: its front page, or nothing when the
\* request raises
Get(articles, up) == IF up THEN Page(articles) ELSE DOWN

\* ai_analyzer.model after the import: None when configuring raised
Models == {"none", "configured"}

-----------------------------------------------------------------------------
(* State after construction.                                               *)

NoServed == [by |-> "none", sw_up |-> FALSE, hn_up |-> FALSE, target |-> NoTarget]
Served(by, sw_up, hn_up, target) ==
    [by |-> by, sw_up |-> sw_up, hn_up |-> hn_up, target |-> target]

NoRun == [status |-> "none", init_ok |-> FALSE, fetches |-> 0, stores |-> 0,
          redates |-> 0, sweeps |-> 0]
ZeroCounts == [new |-> 0, existing |-> 0, error |-> 0]
NoItem == [url |-> Link("", ""), result |-> "none", fault |-> "none", call |-> NoCall]
NoSweep == [op |-> "none", deleted |-> 0]
NoInvoked == [fn |-> "none", source |-> "", words |-> << >>, more |-> << >>]
NoReturned == [day |-> 0, text |-> ""]

\* nothing stored, nothing running
Fresh ==
    /\ news = << >>
    /\ pc = "idle"
    /\ model = "unloaded"
    /\ news_items = << >>
    /\ idx = 0
    /\ txn = << >>
    /\ counts = ZeroCounts
    /\ handled = {}
    /\ run = NoRun
    /\ served = NoServed
    /\ enrich_calls = {}
    /\ last_item = NoItem
    /\ stored_now = {}
    /\ last_op = "none"
    /\ deleted_count = 0
    /\ prev_sweep = NoSweep
    /\ invoked = NoInvoked
    /\ returned = NoReturned
    /\ raced = {}
    /\ errors = {}
    /\ ingested = {}
    /\ dpc = "idle"
    /\ new_news = << >>
    /\ to_append = << >>

Init ==
    /\ today = 0
    /\ site \in Sites(SWPool(0), HNPool)
    /\ Fresh

dash_vars == << dpc, new_news, to_append >>

\* what the step leaves in the variables that describe the last step
Did(fetch, calls, item, stored, op, deleted) ==
    /\ served' = fetch
    /\ enrich_calls' = calls
    /\ last_item' = item
    /\ stored_now' = stored
    /\ last_op' = op
    /\ deleted_count' = deleted
    /\ prev_sweep' = IF op = "cleanup_old_news"
                     THEN [op |-> last_op, deleted |-> deleted_count]
                     ELSE NoSweep
    /\ UNCHANGED << invoked, returned, raced, errors >>

\* the urls of a frame
Urls(frame) == { frame[i].url : i \in 1..Len(frame) }

\* ingested after a step that took the table from before to after: the entries of
\* the rows still there, and one for each row of a url that was not there
Tracked(before, after) ==
    { e \in ingested : url_exists(after, e.url) } \cup
    { [url |-> after[i].url, day |-> after[i].date.day] :
        i \in { j \in 1..Len(after) : ~url_exists(before, after[j].url) } }

-----------------------------------------------------------------------------
(* update_news.main.                                                       *)

\* the run ends with record r, whose status is "returned" or "raised"; the
\* process and its locals are gone
EndRun(r) ==
    /\ pc' = "idle"
    /\ run' = r
    /\ model' = "unloaded"
    /\ news_items' = << >>
    /\ idx' = 0
    /\ txn' = << >>
    /\ counts' = ZeroCounts
    /\ handled' = {}

\* main() up to init_db(): the process starts (ai_analyzer is imported, model is
\* configured or None) and init_db() succeeds or raises
MainInit ==
    /\ pc = "idle"
    /\ dpc = "idle"
    /\ \E m \in Models, ok \in BOOLEAN :
        IF ok
        THEN /\ pc' = "fetch"
             /\ model' = m
             /\ run' = [NoRun EXCEPT !.status = "running", !.init_ok = TRUE]
             /\ UNCHANGED << news_items, idx, txn, counts, handled >>
        ELSE EndRun([NoRun EXCEPT !.status = "raised"])
    /\ Did(NoServed, {}, NoItem, {}, "none", 0)
    /\ UNCHANGED << today, site, news, ingested, dash_vars >>

\* news_items = fetch_security_news(target_date=today) and the test for empty;
\* each site answers the request or not
MainFetch ==
    /\ pc = "fetch"
    /\ \E sw_up \in BOOLEAN, hn_up \in BOOLEAN :
        LET got == fetch_security_news(Get(site.sw, sw_up), Get(site.hn, hn_up),
                                       Target(today), today)
        IN  /\ news_items' = got
            /\ run' = [run EXCEPT !.fetches = 1]
            /\ pc' = IF got = << >> THEN "fallback" ELSE "store"
            /\ Did(Served("main", sw_up, hn_up, Target(today)), {}, NoItem, {}, "none", 0)
    /\ UNCHANGED << today, site, news, ingested, model, idx, txn, counts, handled,
                    dash_vars >>

\* the fallback: news_items = fetch_security_news(), and main's second test
MainFallback ==
    /\ pc = "fallback"
    /\ \E sw_up \in BOOLEAN, hn_up \in BOOLEAN :
        LET got == fetch_security_news(Get(site.sw, sw_up), Get(site.hn, hn_up),
                                       NoTarget, today)
        IN  /\ Did(Served("main", sw_up, hn_up, NoTarget), {}, NoItem, {}, "none", 0)
            /\ IF got # << >>
               THEN /\ news_items' = got
                    /\ run' = [run EXCEPT !.fetches = 2]
                    /\ pc' = "store"
                    /\ UNCHANGED << model, idx, txn, counts, handled >>
               ELSE EndRun([run EXCEPT !.fetches = 2, !.status = "returned"])
    /\ UNCHANGED << today, site, news, ingested, dash_vars >>

\* store_news(news_items): sqlite3.connect, which succeeds or raises (the outer
\* except re-raises, and so does main's)
StoreOpen ==
    /\ pc = "store"
    /\ \E ok \in BOOLEAN :
        IF ok
        THEN /\ pc' = "loop"
             /\ idx' = 1
             /\ txn' = << >>
             /\ run' = [run EXCEPT !.stores = @ + 1]
             /\ counts' = ZeroCounts
             /\ handled' = {}
             /\ UNCHANGED << model, news_items >>
        ELSE EndRun([run EXCEPT !.stores = @ + 1, !.status = "raised"])
    /\ Did(NoServed, {}, NoItem, {}, "none", 0)
    /\ UNCHANGED << today, site, news, ingested, dash_vars >>

\* one pass of the for-loop of store_news
StoreItem ==
    /\ pc = "loop"
    /\ idx <= Len(news_items)
    /\ \E c \in Collaborator, fault \in ItemFaults :
        /\ fault # "none" => counts.error < MaxFaults
        /\ LET it == news_items[idx]
               view == news \o txn
               r == store_item(view, it, model, c, fault)
           IN  /\ txn' = txn \o r.rows
               /\ counts' = [counts EXCEPT ![r.result] = @ + 1]
               /\ handled' = IF r.result = "error" THEN handled
                              ELSE handled \cup {it.url}
               /\ Did(NoServed,
                      IF r.analyzed
                      THEN { [by |-> "update_news", url |-> it.url,
                              stored |-> url_exists(view, it.url)] }
                      ELSE {},
                      [url |-> it.url, result |-> r.result, fault |-> fault,
                       call |-> r.call],
                      {}, "none", 0)
    /\ idx' = idx + 1
    /\ UNCHANGED << today, site, news, ingested, pc, model, news_items, run, dash_vars >>

\* conn.commit() after the loop, which succeeds or raises; conn.close().  Once
\* store_news has returned its locals are gone, and main does not read
\* news_items again
StoreCommit ==
    /\ pc = "loop"
    /\ idx > Len(news_items)
    /\ \E ok \in BOOLEAN :
        IF ok
        THEN /\ news' = news \o txn
             /\ Did(NoServed, {}, NoItem, handled, "store_news", 0)
             /\ pc' = "redate"
             /\ news_items' = << >>
             /\ idx' = 0
             /\ txn' = << >>
             /\ counts' = ZeroCounts
             /\ handled' = {}
             /\ UNCHANGED << model, run >>
        ELSE /\ EndRun([run EXCEPT !.status = "raised"])
             /\ Did(NoServed, {}, NoItem, {}, "none", 0)
             /\ UNCHANGED news
    /\ ingested' = Tracked(news, news')
    /\ UNCHANGED << today, site, dash_vars >>

\* the process is killed (or interrupted from the keyboard: not an Exception,
\* so no except clause of the loop sees it) inside the for-loop of store_news,
\* after at least one INSERT: the connection goes without conn.commit(), and
\* SQLite rolls the open transaction back.  stored_now is the urls inserted
StoreAbort ==
    /\ pc = "loop"
    /\ txn # << >>
    /\ EndRun([run EXCEPT !.status = "aborted"])
    /\ Did(NoServed, {}, NoItem, Urls(txn), "abort", 0)
    /\ UNCHANGED << today, site, news, ingested, dash_vars >>

\* update_article_dates(): its UPDATEs are committed, or an exception is logged
\* and the connection closed without a commit
MainRedate ==
    /\ pc = "redate"
    /\ \E ok \in BOOLEAN :
        IF ok
        THEN /\ news' = update_article_dates(news, today)
             /\ Did(NoServed, {}, NoItem, {}, "update_article_dates", 0)
        ELSE /\ Did(NoServed, {}, NoItem, {}, "none", 0)
             /\ UNCHANGED news
    /\ pc' = "sweep"
    /\ run' = [run EXCEPT !.redates = @ + 1]
    /\ ingested' = Tracked(news, news')
    /\ UNCHANGED << today, site, model, news_items, idx, txn, counts, handled,
                    dash_vars >>

\* the sweep without conn.commit(): rowcount is read, and close() drops the DELETE
M_Sweep ==
    \E ok \in BOOLEAN :
        /\ UNCHANGED news
        /\ IF ok
           THEN Did(NoServed, {}, NoItem, {}, "cleanup_old_news",
                    Len(news) - Len(cleanup_old_news(news, today)))
           ELSE Did(NoServed, {}, NoItem, {}, "none", 0)

\* one call of cleanup_old_news(): the DELETE is committed, or an exception is
\* logged and nothing is deleted
Sweep ==
    \E ok \in BOOLEAN :
        IF ok
        THEN LET left == cleanup_old_news(news, today)
             IN  /\ news' = left
                 /\ Did(NoServed, {}, NoItem, {}, "cleanup_old_news", Len(news) - Len(left))
        ELSE /\ Did(NoServed, {}, NoItem, {}, "none", 0)
             /\ UNCHANGED news

\* main: cleanup_old_news(), then the run returns
MainSweep ==
    /\ pc = "sweep"
    /\ Sweep
    /\ ingested' = Tracked(news, news')
    /\ EndRun([run EXCEPT !.sweeps = @ + 1, !.status = "returned"])
    /\ UNCHANGED << today, site, dash_vars >>

\* what a step outside update_news.main leaves of it: no run is under way
NoPipeline ==
    /\ pc = "idle"
    /\ run' = NoRun
    /\ UNCHANGED << pc, model, news_items, idx, txn, counts, handled >>

\* cleanup_old_news() called on its own, with no run and no click under way
CleanupOldNews ==
    /\ dpc = "idle"
    /\ NoPipeline
    /\ Sweep
    /\ ingested' = Tracked(news, news')
    /\ UNCHANGED << today, site, dash_vars >>

-----------------------------------------------------------------------------
(* app.main, the "Fetch Latest News" button.                               *)

\* new_news = fetch_security_news(), and the test for empty
DashFetch ==
    /\ dpc = "idle"
    /\ NoPipeline
    /\ \E sw_up \in BOOLEAN, hn_up \in BOOLEAN :
        LET got == fetch_security_news(Get(site.sw, sw_up), Get(site.hn, hn_up),
                                       NoTarget, today)
        IN  /\ new_news' = got
            /\ dpc' = IF got = << >> THEN "idle" ELSE "apply"
            /\ Did(Served("app", sw_up, hn_up, NoTarget), {}, NoItem, {}, "none", 0)
    /\ to_append' = << >>
    /\ UNCHANGED << today, site, news, ingested >>

\* the frame with its two new columns: ai_analysis by new_news.apply(...) over
\* every row, risk_level by get_risk_level over that column
enriched(frame, m, calls) ==
    [i \in 1..Len(frame) |->
        LET ai_analysis == analyze_security_news(m, calls[i])
        IN  [url |-> frame[i].url, source |-> frame[i].source,
             date |-> frame[i].date, ai_analysis |-> ai_analysis,
             risk_level |-> risk_level_of[ai_analysis]]]

\* the two column assignments of app.main, before store_news is called (the
\* collaborator treats the calls of one click alike)
DashEnrich ==
    /\ dpc = "apply"
    /\ NoPipeline
    /\ \E m \in Models, c \in Collaborator :
        new_news' = enriched(new_news, m, [i \in 1..Len(new_news) |-> c])
    /\ Did(NoServed,
           { [by |-> "app", url |-> new_news[i].url,
              stored |-> url_exists(news, new_news[i].url)] :
             i \in 1..Len(new_news) },
           NoItem, {}, "none", 0)
    /\ dpc' = "store"
    /\ UNCHANGED << today, site, news, ingested, to_append >>

\* new_items = news_items[~news_items['url'].isin(existing_urls)]
not_existing(frame, rows) ==
    SelectSeq(frame, LAMBDA it : ~url_exists(rows, it.url))

\* app.store_news up to the filter: connect and read the existing urls (an
\* exception is logged and the call returns), then the test for new_items.empty
DashRead ==
    /\ dpc = "store"
    /\ NoPipeline
    /\ \E ok \in BOOLEAN :
        IF ok
        THEN LET new_items == not_existing(new_news, news)
             IN  IF new_items # << >>
                 THEN /\ to_append' = new_items
                      /\ dpc' = "append"
                      /\ Did(NoServed, {}, NoItem, {}, "none", 0)
                      /\ UNCHANGED new_news
                 ELSE /\ to_append' = << >>
                      /\ dpc' = "idle"
                      /\ new_news' = << >>
                      /\ Did(NoServed, {}, NoItem, Urls(new_news), "app.store_news", 0)
        ELSE /\ to_append' = << >>
             /\ dpc' = "idle"
             /\ new_news' = << >>
             /\ Did(NoServed, {}, NoItem, {}, "none", 0)
    /\ UNCHANGED << today, site, news, ingested >>

\* the rows to_sql binds for a frame: a Timestamp goes in as its isoformat(" ")
sql_rows(frame) ==
    [i \in 1..Len(frame) |->
        Row(frame[i].url, frame[i].source, adapt_datetime(frame[i].date),
            frame[i].ai_analysis, frame[i].risk_level)]

\* new_items.to_sql('news', conn, if_exists='append', index=False): one
\* transaction, committed or rolled back whole; an exception is logged
DashAppend ==
    /\ dpc = "append"
    /\ NoPipeline
    /\ \E ok \in BOOLEAN :
        IF ok
        THEN LET r == insert_many(news, sql_rows(to_append))
             IN  /\ news' = r.rows
                 /\ Did(NoServed, {}, NoItem, Urls(new_news), "app.store_news", 0)
        ELSE /\ Did(NoServed, {}, NoItem, {}, "none", 0)
             /\ UNCHANGED news
    /\ dpc' = "idle"
    /\ new_news' = << >>
    /\ to_append' = << >>
    /\ ingested' = Tracked(news, news')
    /\ UNCHANGED << today, site >>

-----------------------------------------------------------------------------
(* The clock, and the specification.                                       *)

\* midnight passes while nothing runs
Tick ==
    /\ dpc = "idle"
    /\ NoPipeline
    /\ today < MaxDay
    /\ today' = today + 1
    /\ Did(NoServed, {}, NoItem, {}, "none", 0)
    /\ UNCHANGED << site, news, ingested, dash_vars >>

Next ==
    \/ MainInit
    \/ MainFetch
    \/ MainFallback
    \/ StoreOpen
    \/ StoreItem
    \/ StoreCommit
    \/ StoreAbort
    \/ MainRedate
    \/ MainSweep
    \/ CleanupOldNews
    \/ DashFetch
    \/ DashEnrich
    \/ DashRead
    \/ DashAppend
    \/ Tick

Spec == Init /\ [][Next]_vars

-----------------------------------------------------------------------------
(* SpecFetch: the fetch stage of update_news.main on any one day, over more  *)
(* of what the sites may list.                                               *)

InitFetch ==
    /\ today \in 0..MaxDay
    /\ site \in Sites(SWSite(today), HNSite(today))
    /\ Fresh

NextFetch ==
    \/ MainInit
    \/ MainFetch
    \/ MainFallback

SpecFetch == InitFetch /\ [][NextFetch]_vars

-----------------------------------------------------------------------------
(* SpecDaily: update_news.main run once a day, day after day, with every     *)
(* site answering and no statement failing.                                  *)

RECURSIVE store_news(_, _, _, _)
\* the rows the loop of store_news inserts for a batch when no statement raises
store_news(view, items, m, c) ==
    IF items = << >> THEN << >>
    ELSE LET r == store_item(view, Head(items), m, c, "none")
         IN  r.rows \o store_news(view \o r.rows, Tail(items), m, c)

\* one whole run of main() on day today
DailyRun ==
    /\ pc = "idle"
    /\ dpc = "idle"
    /\ run.status = "none"
    /\ \E m \in Models, c \in Collaborator :
        LET filtered == fetch_security_news(Page(site.sw), Page(site.hn),
                                            Target(today), today)
            fallback == fetch_security_news(Page(site.sw), Page(site.hn),
                                            NoTarget, today)
            batch == IF filtered # << >> THEN filtered ELSE fallback
            fetches == IF filtered # << >> THEN 1 ELSE 2
            stored == news \o store_news(news, batch, m, c)
            redated == update_article_dates(stored, today)
            left == cleanup_old_news(redated, today)
        IN  IF batch = << >>
            THEN /\ UNCHANGED << news, ingested >>
                 /\ run' = [NoRun EXCEPT !.status = "returned", !.init_ok = TRUE,
                                         !.fetches = fetches]
                 /\ Did(NoServed, {}, NoItem, {}, "none", 0)
            ELSE /\ news' = left
                 /\ ingested' = { e \in Tracked(news, stored) :
                                    url_exists(left, e.url) }
                 /\ run' = [status |-> "returned", init_ok |-> TRUE,
                            fetches |-> fetches, stores |-> 1, redates |-> 1,
                            sweeps |-> 1]
                 /\ Did(NoServed, {}, NoItem, Urls(batch), "cleanup_old_news",
                        Len(redated) - Len(left))
    /\ UNCHANGED << today, site, pc, model, news_items, idx, txn, counts, handled,
                    dash_vars >>

\* midnight after the day's run
Midnight ==
    /\ run.status = "returned"
    /\ today < MaxDailyRuns
    /\ today' = today + 1
    /\ run' = NoRun
    /\ Did(NoServed, {}, NoItem, {}, "none", 0)
    /\ UNCHANGED << site, news, ingested, pc, model, news_items, idx, txn, counts,
                    handled, dash_vars >>

NextDaily ==
    \/ DailyRun
    \/ Midnight

SpecDaily == Init /\ [][NextDaily]_vars

-----------------------------------------------------------------------------
(* SpecCalls: one call of a function of news_fetcher.py or ai_analyzer.py,   *)
(* over texts made of a few words.                                           *)

\* the variables of the pipeline and the dashboard
sys_vars == << today, site, news, pc, model, news_items, idx, txn, counts, handled,
               run, served, enrich_calls, last_item, stored_now, last_op,
               deleted_count, prev_sweep, raced, errors, ingested, dpc, new_news,
               to_append >>

\* the source names parse_date is called with, and one it does not know
Sources == { HackerNews, SecurityWeek, "Dark Reading" }

InitCalls ==
    /\ today \in 0..MaxDay
    /\ site = [sw |-> << >>, hn |-> << >>]
    /\ Fresh

\* parse_date(date_str, source)
CallParseDate ==
    /\ invoked.fn = "none"
    /\ \E words \in SeqsUpTo(DateWords, MaxWords), source \in Sources :
        /\ invoked' = [fn |-> "parse_date", source |-> source, words |-> words,
                       more |-> << >>]
        /\ returned' = [day |-> parse_date_text(words, source, today), text |-> ""]
    /\ UNCHANGED sys_vars

\* the words titles and summaries are made of
TextWords == { "Hacked", "leak", "AWS", "update" }

\* categorize_news(title, summary)
CallCategorize ==
    /\ invoked.fn = "none"
    /\ \E title \in SeqsUpTo(TextWords, MaxText), summary \in SeqsUpTo(TextWords, MaxText) :
        /\ invoked' = [fn |-> "categorize_news", source |-> "", words |-> title,
                       more |-> summary]
        /\ returned' = [day |-> 0, text |-> categorize_news(Join(title), Join(summary))]
    /\ UNCHANGED sys_vars

\* the words analysis texts are made of
AnalysisWords == { "Critical", "HIGH", "medium", "low", "follow", "risk" }

\* get_risk_level(analysis)
CallGetRiskLevel ==
    /\ invoked.fn = "none"
    /\ \E analysis \in SeqsUpTo(AnalysisWords, MaxAnalysis) :
        /\ invoked' = [fn |-> "get_risk_level", source |-> "", words |-> analysis,
                       more |-> << >>]
        /\ returned' = [day |-> 0, text |-> first_level_in(Join(analysis))]
    /\ UNCHANGED sys_vars

NextCalls ==
    \/ CallParseDate
    \/ CallCategorize
    \/ CallGetRiskLevel

SpecCalls == InitCalls /\ [][NextCalls]_vars


-----------------------------------------------------------------------------
(* SpecRace: a run of update_news.main and a click on the dashboard at the   *)
(* same time, on one database file.  The run's loop is taken statement by    *)
(* statement: its SELECT and its INSERT are two steps, and the click's read  *)
(* of the urls and its to_sql are two steps.  No statement fails on its own. *)

\* what the last step left for the properties of Spec, kept as it is
step_vars == << served, enrich_calls, last_item, stored_now, last_op,
                deleted_count, prev_sweep, invoked, returned, ingested >>

\* the INSERT of the loop body for item `it`, with what comes before it since
\* the SELECT: analysis, risk level, date string.  view is what the connection
\* sees when the INSERT runs
insert_item(view, it, m, c) ==
    LET ai_analysis == analyze_security_news(m, c)
        risk_level == risk_level_of[ai_analysis]
        date_str == IF it.date.type = "str" THEN DateStr(it.date.day)
                    ELSE strftime_ymd(it.date)
    IN  IF ~unique_ok(view, it.url)
        THEN [error |-> "IntegrityError", rows |-> << >>]
        ELSE [error |-> "",
              rows |-> << Row(it.url, it.source, date_str, ai_analysis, risk_level) >>]

\* update_news.main up to the for-loop of store_news: init_db, the fetch
\* filtered on today, the fallback fetch if that one is empty, connect
RaceMain ==
    /\ pc = "idle"
    /\ run.status = "none"
    /\ \E m \in Models, sw_up \in BOOLEAN, hn_up \in BOOLEAN :
        LET first == fetch_security_news(Get(site.sw, sw_up), Get(site.hn, hn_up),
                                         Target(today), today)
            got == IF first # << >> THEN first
                   ELSE fetch_security_news(Get(site.sw, sw_up), Get(site.hn, hn_up),
                                            NoTarget, today)
        IN  /\ got # << >>
            /\ news_items' = got
            /\ model' = m
            /\ run' = [NoRun EXCEPT !.status = "running", !.init_ok = TRUE,
                                    !.fetches = IF first # << >> THEN 1 ELSE 2,
                                    !.stores = 1]
    /\ pc' = "select"
    /\ idx' = 1
    /\ txn' = << >>
    /\ counts' = ZeroCounts
    /\ handled' = {}
    /\ UNCHANGED << today, site, news, raced, errors, step_vars, dash_vars >>

\* the SELECT of the loop body: the url is there (the item is skipped) or not
RaceSelect ==
    /\ pc = "select"
    /\ idx <= Len(news_items)
    /\ LET u == news_items[idx].url
       IN  IF url_exists(news \o txn, u)
           THEN /\ counts' = [counts EXCEPT !.existing = @ + 1]
                /\ handled' = handled \cup {u}
                /\ idx' = idx + 1
                /\ UNCHANGED << pc, raced >>
           ELSE /\ pc' = "insert"
                /\ raced' = IF dpc = "append" /\ u \in Urls(to_append)
                            THEN raced \cup {u} ELSE raced
                /\ UNCHANGED << counts, handled, idx >>
    /\ UNCHANGED << today, site, news, model, news_items, txn, run, errors,
                    step_vars, dash_vars >>

\* the INSERT of the loop body, after the call of analyze_security_news: the
\* row joins the open transaction, or url UNIQUE raises and the loop's except
\* counts and logs an error
RaceInsert ==
    /\ pc = "insert"
    /\ \E c \in Collaborator :
        LET it == news_items[idx]
            r == insert_item(news \o txn, it, model, c)
        IN  /\ txn' = txn \o r.rows
            /\ IF r.error = ""
               THEN /\ counts' = [counts EXCEPT !.new = @ + 1]
                    /\ handled' = handled \cup {it.url}
                    /\ UNCHANGED errors
               ELSE /\ counts' = [counts EXCEPT !.error = @ + 1]
                    /\ errors' = errors \cup
                                   { [by |-> "update_news", error |-> r.error] }
                    /\ UNCHANGED handled
    /\ pc' = "select"
    /\ idx' = idx + 1
    /\ UNCHANGED << today, site, news, model, news_items, run, raced, step_vars,
                    dash_vars >>

\* conn.commit() after the loop; the batch and the counters stay for the
\* summary store_news logs
RaceCommit ==
    /\ pc = "select"
    /\ idx > Len(news_items)
    /\ news' = news \o txn
    /\ txn' = << >>
    /\ pc' = "redate"
    /\ UNCHANGED << today, site, model, news_items, idx, counts, handled, run,
                    raced, errors, step_vars, dash_vars >>

\* app.store_news up to the filter, while the run may be in its loop: the read
\* sees the committed rows
RaceDashRead ==
    /\ dpc = "store"
    /\ pc # "idle"
    /\ LET new_items == not_existing(new_news, news)
       IN  /\ to_append' = new_items
           /\ dpc' = IF new_items # << >> THEN "append" ELSE "idle"
           /\ raced' = IF pc = "insert" /\ news_items[idx].url \in Urls(new_items)
                       THEN raced \cup {news_items[idx].url} ELSE raced
    /\ UNCHANGED << today, site, news, pc, model, news_items, idx, txn, counts,
                    handled, run, errors, step_vars, new_news >>

\* new_items.to_sql(...) while the run may be in its loop: with the run's
\* transaction open the database is locked and to_sql raises OperationalError
\* once the timeout is over; otherwise one transaction, rolled back whole when a
\* row breaks url UNIQUE.  Either exception is logged by app.store_news
RaceDashAppend ==
    /\ dpc = "append"
    /\ pc # "idle"
    /\ LET r == IF txn # << >>
                THEN [error |-> "OperationalError", rows |-> news]
                ELSE insert_many(news, sql_rows(to_append))
       IN  /\ news' = r.rows
           /\ errors' = IF r.error = "" THEN errors
                        ELSE errors \cup { [by |-> "app", error |-> r.error] }
    /\ dpc' = "idle"
    /\ UNCHANGED << today, site, pc, model, news_items, idx, txn, counts, handled,
                    run, raced, step_vars, new_news, to_append >>

NextRace ==
    \/ DashFetch
    \/ DashEnrich
    \/ RaceMain
    \/ RaceSelect
    \/ RaceInsert
    \/ RaceCommit
    \/ RaceDashRead
    \/ RaceDashAppend

SpecRace == Init /\ [][NextRace]_vars

-----------------------------------------------------------------------------
(* The properties.                                                           *)

\* the number of rows of url u
Count(rows, u) == Cardinality({ i \in 1..Len(rows) : rows[i].url = u })

\* C1: the table never holds two records of one url, and once a store operation
\* has gone through a batch, the table holds exactly one record of each url of
\* the batch
C1_OneRecordPerStoredUrl ==
    /\ \A i, j \in 1..Len(news) : news[i].url = news[j].url => i = j
    /\ last_op \in {"store_news", "app.store_news"} =>
          \A u \in stored_now : Count(news, u) = 1

\* C2: analyze_security_news is never called for an item whose url is stored
C2_EnrichOnlyAbsent == \A e \in enrich_calls : ~e.stored

\* C3 (SpecDaily): after the sweep of a daily run no record is left that was
\* inserted with a date more than 90 days back
C3_EveryRecordSwept ==
    (last_op = "cleanup_old_news" /\ run.sweeps = 1) =>
        \A e \in ingested : today - e.day <= RetentionDays

\* C4: a completed cleanup_old_news leaves every record dated today - 90 or
\* later, deletes exactly the records dated before today - 90 and keeps the
\* others as they were, in their order
C4_SweepDeletesExactlyOld ==
    [][last_op' = "cleanup_old_news" =>
          /\ \A i \in 1..Len(news') : news'[i].date.day >= today - RetentionDays
          /\ news' = SelectSeq(news, LAMBDA r : r.date.day >= today - RetentionDays)
          /\ deleted_count' =
                Cardinality({ i \in 1..Len(news) :
                                news[i].date.day < today - RetentionDays })]_vars

\* a sweep has just kept a record dated exactly today - 90
C4_Witness ==
    /\ last_op = "cleanup_old_news"
    /\ \E i \in 1..Len(news) :
          /\ news[i].date.day = today - RetentionDays
          /\ ~news[i].date.hasTime

\* C5: a run of main that got past init_db and returned has called
\* cleanup_old_news once
C5_SweepOncePerRun ==
    (run.init_ok /\ run.status = "returned") => run.sweeps = 1

\* C6: a sweep that directly follows a sweep deletes nothing and leaves the
\* table as it was
C6_SweepIdempotent ==
    [][(last_op = "cleanup_old_news" /\ last_op' = "cleanup_old_news") =>
          (deleted_count' = 0 /\ news' = news)]_vars

\* two sweeps in a row, the first of which deleted a record
C6_Witness ==
    /\ last_op = "cleanup_old_news"
    /\ prev_sweep.op = "cleanup_old_news"
    /\ prev_sweep.deleted > 0
    /\ deleted_count = 0

\* the messages analyze_security_news returns for a call that gave no analysis
Unavailable == {UNAVAILABLE_NO_MODEL, UNAVAILABLE_RETRY}

\* the enrichment of the item of the last step failed: no model, or the
\* collaborator raised or answered without text
EnrichmentFailed == model = "none" \/ last_item.call.kind \in {"raise", "notext"}

\* C7, one item: when the loop of store_news enriched an item and no storage
\* statement raised on it, the item is inserted: with an unavailability message
\* and 'Unknown' when its own call failed, with the collaborator's text and the
\* level found in that text when it did not
C7_ItemIsolated ==
    (pc = "loop" /\ enrich_calls # {} /\ last_item.fault = "none") =>
        /\ last_item.result = "new"
        /\ txn # << >>
        /\ LET row == txn[Len(txn)]
           IN  /\ row.url = last_item.url
               /\ IF EnrichmentFailed
                  THEN row.ai_analysis \in Unavailable /\ row.risk_level = "Unknown"
                  ELSE /\ row.ai_analysis = last_item.call.text
                       /\ row.risk_level = get_risk_level(last_item.call.text)
                       /\ row.risk_level # "Unknown"

\* C7: enrichment failure is isolated per item, and the commit of store_news
\* persists every row its loop inserted, unchanged
C7_EnrichmentIsolated ==
    /\ []C7_ItemIsolated
    /\ [][last_op' = "store_news" => news' = news \o txn]_vars

\* a batch has been committed with one record whose enrichment failed and one
\* with the level of its own analysis
C7_Witness ==
    /\ last_op = "store_news"
    /\ \E i, j \in 1..Len(news) :
          /\ {news[i].url, news[j].url} \subseteq stored_now
          /\ news[i].ai_analysis \in Unavailable
          /\ news[i].risk_level = "Unknown"
          /\ news[j].ai_analysis = ResponseMediumCritical
          /\ news[j].risk_level = "Critical"

\* C8: a run of main raises only when init_db failed, before any fetch and with
\* nothing stored by it
C8_OnlyInitRaises ==
    run.status = "raised" => (~run.init_ok /\ run.fetches = 0 /\ run.stores = 0)

\* the articles of a front page an adapter can read and that pass its date test
Readable(articles, source, target_date, now) ==
    { i \in 1..Len(articles) :
        /\ articles[i].ok
        /\ target_date.given =>
              parse_date(articles[i].raw, source, now) = target_date.day }

\* the items an adapter owes for a front page, as a set
Owed(articles, source, target_date, now) ==
    { [url |-> IF source = SecurityWeek THEN sw_url(articles[i].link)
               ELSE articles[i].link,
       source |-> source,
       day |-> parse_date(articles[i].raw, source, now)] :
      i \in Readable(articles, source, target_date, now) }

\* the items of a frame, as a set
Fetched(frame) ==
    { [url |-> frame[i].url, source |-> frame[i].source, day |-> frame[i].date.day] :
      i \in 1..Len(frame) }

\* what the sites that answered the last fetch list
AnsweredSW == IF served.sw_up THEN site.sw ELSE << >>
AnsweredHN == IF served.hn_up THEN site.hn ELSE << >>

\* C9 (SpecFetch): whichever sites answer, the fetch gives the items of the
\* sites that answered and none for a site that did not, one per readable
\* article, and the run has not raised
C9_AdaptersIsolated ==
    served.by = "main" =>
        /\ Fetched(news_items) =
              Owed(AnsweredSW, SecurityWeek, served.target, today)
              \cup Owed(AnsweredHN, HackerNews, served.target, today)
        /\ Len(news_items) =
              Cardinality(Readable(AnsweredSW, SecurityWeek, served.target, today))
              + Cardinality(Readable(AnsweredHN, HackerNews, served.target, today))
        /\ run.status # "raised"

\* Security Week did not answer and the fetch still has the items of The Hacker
\* News
C9_Witness ==
    /\ served.by = "main"
    /\ ~served.sw_up
    /\ served.hn_up
    /\ news_items # << >>
    /\ \A i \in 1..Len(news_items) : news_items[i].source = HackerNews

\* C10 (SpecFetch): the fetch filtered on today gives only items dated today;
\* main goes to the fallback exactly when that fetch is empty; the batch that
\* reaches store_news is all of today, or is the whole unfiltered fetch
C10_FilterAndFallback ==
    /\ (served.by = "main" /\ served.target.given) =>
          /\ served.target.day = today
          /\ run.fetches = 1
          /\ \A i \in 1..Len(news_items) : news_items[i].date.day = today
          /\ (pc = "fallback") = (news_items = << >>)
          /\ (pc = "store") = (news_items # << >>)
    /\ pc = "fallback" => (served.by = "main" /\ served.target.given)
    /\ (served.by = "main" /\ ~served.target.given) =>
          /\ run.fetches = 2
          /\ Fetched(news_items) =
                Owed(AnsweredSW, SecurityWeek, NoTarget, today)
                \cup Owed(AnsweredHN, HackerNews, NoTarget, today)
          /\ (pc = "store") = (news_items # << >>)
    /\ pc = "store" =>
          \/ run.fetches = 1 /\ \A i \in 1..Len(news_items) : news_items[i].date.day = today
          \/ run.fetches = 2 /\ ~served.target.given

\* the fallback has handed store_news a batch with an item not dated today,
\* from a site that lists no article of today
C10_Witness ==
    /\ pc = "store"
    /\ run.fetches = 2
    /\ \E i \in 1..Len(news_items) : news_items[i].date.day # today

\* the spellings of a whole number N in DateWords, and their values
Numerals == { "30", "1000000" }
NumeralValue(w) == CASE w = "30" -> 30 [] w = "1000000" -> 1000000

\* a string of the form 'N days ago' / 'N hours ago'
DaysAgoForm(words) ==
    /\ Len(words) = 3
    /\ words[1] \in Numerals
    /\ words[2] = "days"
    /\ words[3] \in {"ago", "AGO"}
HoursAgoForm(words) ==
    /\ Len(words) = 3
    /\ words[1] \in Numerals
    /\ words[2] = "hours"
    /\ words[3] \in {"ago", "AGO"}

\* a string in the format its source expects
Parseable(words, source) ==
    \/ source = HackerNews /\ (DaysAgoForm(words) \/ HoursAgoForm(words))
    \/ source = SecurityWeek
       /\ words \in { << "2025-01-01" >>, << "2024-12-31T08:30:00Z" >> }

\* C11 (SpecCalls): for a raw date string that is not in the format its source
\* expects, and for any string of an unknown source, parse_date returns today
C11_FallsBackToToday ==
    (invoked.fn = "parse_date" /\ ~Parseable(invoked.words, invoked.source)) =>
        returned.day = today

\* C12 as stated (SpecCalls): for The Hacker News 'N days ago' gives today - N
\* and 'N hours ago' gives today, for every N
C12_OffsetsAnyN ==
    (invoked.fn = "parse_date" /\ invoked.source = HackerNews) =>
        /\ DaysAgoForm(invoked.words) =>
              returned.day = today - NumeralValue(invoked.words[1])
        /\ HoursAgoForm(invoked.words) => returned.day = today

\* C12 (SpecCalls): for The Hacker News 'N days ago' gives today - N while that
\* day is a date (not before 0001-01-01) and today beyond that; 'N hours ago'
\* gives today for every N
C12_OffsetsInRange ==
    (invoked.fn = "parse_date" /\ invoked.source = HackerNews) =>
        /\ DaysAgoForm(invoked.words) =>
              LET N == NumeralValue(invoked.words[1])
              IN  returned.day = IF today - N >= MIN_DAY THEN today - N ELSE today
        /\ HoursAgoForm(invoked.words) => returned.day = today

\* '30 days ago' has been parsed for The Hacker News
C12_Witness ==
    /\ invoked.fn = "parse_date"
    /\ invoked.source = HackerNews
    /\ invoked.words = << "30", "days", "ago" >>
    /\ returned.day = today - 30

\* the keywords of category c that occur in a text, whatever the case
KeywordsIn(c, text) ==
    { k \in 1..Len(categories[c].keywords) :
        Contains(text, keyword_lower[categories[c].keywords[k]]) }

\* score(c) of a title and a summary, given in lower case
Score(c, title, summary) ==
    2 * Cardinality(KeywordsIn(c, title)) + Cardinality(KeywordsIn(c, summary))

\* the greatest score
Top(sc) == CHOOSE v \in { sc[c] : c \in 1..Len(categories) } :
               \A c \in 1..Len(categories) : sc[c] <= v

\* the first category whose score is top, or the fallback category
FirstAt(sc, top) ==
    IF top = 0 THEN DEFAULT_CATEGORY
    ELSE categories[CHOOSE c \in 1..Len(categories) :
                       sc[c] = top /\ \A k \in 1..(c - 1) : sc[k] < top].name

\* the first category with the greatest score, or the fallback category
Expected(sc) == FirstAt(sc, Top(sc))

\* the scores of a title and a summary, as a tuple
Scores(title, summary) ==
    << Score(1, title, summary), Score(2, title, summary), Score(3, title, summary),
       Score(4, title, summary), Score(5, title, summary), Score(6, title, summary),
       Score(7, title, summary) >>

\* C13 (SpecCalls): categorize_news returns the first category, in
\* declaration order, whose score 2 x (keywords in the title) + (keywords in
\* the summary) is the maximum, and the fallback category when that maximum is 0
C13_FirstMaxScore ==
    invoked.fn = "categorize_news" =>
        \A title \in { Lower(Join(invoked.words)) },
           summary \in { Lower(Join(invoked.more)) } :
            \A sc \in { Scores(title, summary) } : returned.text = Expected(sc)

\* a tie at score 2 between Cloud Security (AWS in the title) and Breaches (two
\* keywords in the summary) went to Breaches, declared first
C13_Witness ==
    /\ invoked.fn = "categorize_news"
    /\ invoked.words = << "AWS" >>
    /\ invoked.more = << "Hacked", "leak" >>
    /\ returned.text = "Breaches"

\* level i of risk_levels occurs in a text, whatever the case
Occurs(i, text) == Contains(Lower(Join(text)), Lower(Chars(risk_levels[i])))

\* C14 (SpecCalls): get_risk_level returns the first of Critical, High,
\* Medium, Low that occurs in the text, whatever the case and wherever it
\* occurs, and Unknown when none occurs
C14_HighestPriorityLevel ==
    invoked.fn = "get_risk_level" =>
        /\ returned.text \in { "Critical", "High", "Medium", "Low", "Unknown" }
        /\ IF \A i \in 1..Len(risk_levels) : ~Occurs(i, invoked.words)
           THEN returned.text = "Unknown"
           ELSE \E i \in 1..Len(risk_levels) :
                   /\ returned.text = risk_levels[i]
                   /\ Occurs(i, invoked.words)
                   /\ \A k \in 1..(i - 1) : ~Occurs(k, invoked.words)

\* a text with Low before Critical was rated Critical
C14_Witness ==
    /\ invoked.fn = "get_risk_level"
    /\ invoked.words = << "low", "risk", "Critical" >>
    /\ returned.text = "Critical"

\* C15 (Spec): when store_news is killed after it has inserted some new items,
\* those items are in the table after the abort
C15_PartialProgressSurvives ==
    last_op = "abort" => \A u \in stored_now : url_exists(news, u)

\* C18 (Spec): the date of every stored record is a plain 'YYYY-MM-DD', with no
\* time-of-day part
C18_DatesArePlain ==
    \A i \in 1..Len(news) : ~news[i].date.hasTime

\* a record after the re-dating pass of day now: a Hacker News record dated the
\* day before is dated now, with everything else as it was
Redated(r, now) ==
    IF r.source = HackerNews /\ r.date.day = now - 1
    THEN [r EXCEPT !.date.day = now]
    ELSE r

\* C17: in a run of update_news.main the re-dating pass starts only once the
\* batch is committed and the sweep only once both are over, and a re-dating
\* pass moves to today exactly the Hacker News records dated yesterday, leaving
\* every other record, every other column, the number of records and the urls
C17_StagesInOrder ==
    /\ [](pc = "redate" =>
            (txn = << >> /\ run.stores = 1 /\ run.redates = 0 /\ run.sweeps = 0))
    /\ [](pc = "sweep" => (run.stores = 1 /\ run.redates = 1 /\ run.sweeps = 0))
    /\ [][pc' = "redate" => (last_op' = "store_news" /\ news' = news \o txn)]_vars
    /\ [][pc' = "sweep" => pc = "redate"]_vars
    /\ [][last_op' = "cleanup_old_news" => pc \in {"sweep", "idle"}]_vars
    /\ [][pc = "redate" =>
            IF last_op' = "update_article_dates"
            THEN /\ Len(news') = Len(news)
                 /\ \A i \in 1..Len(news) : news'[i] = Redated(news[i], today)
            ELSE news' = news]_vars

\* a re-dating pass has moved a Hacker News record ingested with yesterday's
\* date to today and left a Security Week record as it was
C17_Witness ==
    /\ last_op = "update_article_dates"
    /\ pc = "sweep"
    /\ \E i, j \in 1..Len(news) :
          /\ news[i].source = HackerNews
          /\ news[i].date.day = today
          /\ [url |-> news[i].url, day |-> today - 1] \in ingested
          /\ news[j].source = SecurityWeek
          /\ [url |-> news[j].url, day |-> news[j].date.day] \in ingested

\* both ingestions of SpecRace are over
RaceOver == pc = "redate" /\ dpc = "idle" /\ new_news # << >>

\* C16 (SpecRace): when both ingestions found a url absent before either
\* inserted it, the table ends with one record of it, no ingestion has counted
\* or logged an error, and every item of both batches is stored
C16_RaceIsSkippedDuplicate ==
    (RaceOver /\ raced # {}) =>
        /\ \A u \in raced : Count(news, u) = 1
        /\ counts.error = 0
        /\ errors = {}
        /\ \A u \in Urls(news_items) \cup Urls(new_news) : url_exists(news, u)

====
